---- MODULE Spec2Model ----
(***************************************************************************)
(* Model of the dataset conversion script (convert_dataset.py) and of the  *)
(* benchmark summarizer (analyze_cagra_results.py).                        *)
(*                                                                         *)
(* A file is a record [exists, bytes]; bytes is a sequence of 0..255.      *)
(* Header words are kept as 4-byte little-endian sequences, so that the    *)
(* signed decoding ('i') and the unsigned encoding ('I') of struct are     *)
(* modelled by what they do to bytes.                                      *)
(***************************************************************************)
EXTENDS Integers, Sequences, FiniteSets, TLC

VARIABLES
    \* --- one call of convert_bin_to_fbin --------------------------------
    cv_pc,          \* "idle" | "call" | "returned" | "raised"
    input_file,     \* the source path
    output_file,    \* the destination path
    data_type,      \* 'f' or 'q'
    raised,         \* the exception the call ended with, "none" otherwise
    \* --- main() of convert_dataset.py ----------------------------------
    pc,             \* "idle" | "start" | "loop" | "report" | "exit"
    argc,           \* len(sys.argv)
    input_dir_exists,
    src,            \* input_dir / input_name, per manifest entry
    dst,            \* output_dir / output_name, per manifest entry
    i,              \* position of the for loop over conversions
    exit_code,      \* -1 while running
    stdout,         \* what main() and the converter printed, in order
    \* --- main() of analyze_cagra_results.py -----------------------------
    an_pc,          \* "idle" | "start" | "parse" | "csv" | "exit"
    an_argc,        \* len(sys.argv)
    results_dir_exists,
    result_files,   \* sorted(results_dir.glob(...)), parsed JSON documents
    j,              \* position of the for loop over result_files
    results,        \* the list of parsed results
    table,          \* the rows printed
    csv_file,       \* results_dir / summary.csv
    an_exit         \* -1 while running

vars == <<cv_pc, input_file, output_file, data_type, raised,
          pc, argc, input_dir_exists, src, dst, i, exit_code, stdout,
          an_pc, an_argc, results_dir_exists, result_files, j, results, table,
          csv_file, an_exit>>

cv_vars == <<cv_pc, input_file, output_file, data_type, raised>>
main_vars == <<pc, argc, input_dir_exists, src, dst, i, exit_code, stdout>>
an_vars == <<an_pc, an_argc, results_dir_exists, result_files, j, results, table,
             csv_file, an_exit>>

----------------------------------------------------------------------------
(* Bounds *)

\* header words n = 0..MaxSmallWord are drawn as the bytes <<n,0,0,0>>
MaxSmallWord == 2
\* payloads of 0..MaxPayloadLen bytes follow the header
MaxPayloadLen == 17
\* a read length from AllocLimit on is one the allocator may refuse; read
\* lengths are computed saturated at AllocLimit (it exceeds every file)
AllocLimit == 1048576
\* number of result files the summarizer finds
MaxResultFiles == 3

----------------------------------------------------------------------------
(* Files and bytes *)

Min(a, b) == IF a < b THEN a ELSE b

Absent == [exists |-> FALSE, bytes |-> <<>>]
File(b) == [exists |-> TRUE, bytes |-> b]

\* f.read(n) at offset pos, n >= 0: at most n bytes, fewer at end of file
read(bytes, pos, n) == SubSeq(bytes, pos + 1, Min(pos + n, Len(bytes)))

\* struct.unpack('i', b): 4 bytes little-endian, two's complement
unpack_i(b) ==
    b[1] + 256 * b[2] + 65536 * b[3]
         + 16777216 * (IF b[4] >= 128 THEN b[4] - 256 ELSE b[4])

\* struct.pack('I', v) raises struct.error unless 0 <= v < 2^32; a value
\* decoded by unpack_i is below 2^31
pack_I_fits(v) == v >= 0
pack_I(v) == << v % 256, (v \div 256) % 256, (v \div 65536) % 256,
                (v \div 16777216) % 256 >>

\* |v| saturated at AllocLimit (no negation of -2^31)
Mag(v) == IF v <= -AllocLimit \/ v >= AllocLimit THEN AllocLimit
          ELSE IF v < 0 THEN -v ELSE v

\* a * b for naturals, saturated at AllocLimit
SatMul(a, b) == IF a = 0 \/ b = 0 THEN 0
                ELSE IF a > AllocLimit \div b THEN AllocLimit
                ELSE Min(a * b, AllocLimit)

element_size_wrong(dt) == 4
element_size(dt) == IF dt = "f" THEN 4 ELSE 8

\* sign and saturated magnitude of dim * count * element_size
data_size_negative(dim, count) == (dim < 0) # (count < 0) /\ dim # 0 /\ count # 0
data_size_mag(dim, count, dt) ==
    SatMul(SatMul(Mag(dim), Mag(count)), element_size(dt))

----------------------------------------------------------------------------
(* convert_bin_to_fbin *)

\* the second `with` block: open(output_file, 'wb') truncates, then the
\* three writes; a struct.error leaves what was written before it
write_output(dim, count, data) ==
    IF ~pack_I_fits(count)
    THEN [err |-> "struct.error:pack", out |-> File(<<>>)]
    ELSE IF ~pack_I_fits(dim)
    THEN [err |-> "struct.error:pack", out |-> File(pack_I(count))]
    ELSE [err |-> "none", out |-> File(pack_I(count) \o pack_I(dim) \o data)]

\* the read of the payload and the size check; mem is what a read of
\* AllocLimit bytes or more does: "short" (it returns what the file has),
\* "MemoryError" or "OverflowError"
read_data_write_first(inp, out, dim, count, dt, mem) ==
    IF data_size_negative(dim, count)
    THEN [err |-> "ValueError:read", out |-> out]
    ELSE LET data_size == data_size_mag(dim, count, dt)
             data == read(inp.bytes, 8, data_size)
         IN  IF data_size >= AllocLimit /\ mem # "short"
             THEN [err |-> mem, out |-> out]
             ELSE IF Len(data) # data_size
             THEN [err |-> "ValueError:mismatch",
                   out |-> write_output(dim, count, data).out]
             ELSE write_output(dim, count, data)
read_data(inp, out, dim, count, dt, mem) ==
    IF data_size_negative(dim, count)
    THEN [err |-> "ValueError:read", out |-> out]
    ELSE LET data_size == data_size_mag(dim, count, dt)
             data == read(inp.bytes, 8, data_size)
         IN  IF data_size >= AllocLimit /\ mem # "short"
             THEN [err |-> mem, out |-> out]
             ELSE IF Len(data) # data_size
             THEN [err |-> "ValueError:mismatch", out |-> out]
             ELSE write_output(dim, count, data)

\* missing header bytes read as zero
convert_zero_fill(inp, out, dt, mem) ==
    IF ~inp.exists THEN [err |-> "FileNotFoundError", out |-> out]
    ELSE LET padded == inp.bytes \o [k \in 1..8 |-> 0]
             first_meta == unpack_i(SubSeq(padded, 1, 4))
             second_meta == unpack_i(SubSeq(padded, 5, 8))
         IN  read_data(inp, out, first_meta, second_meta, dt, mem)
\* the result of convert_bin_to_fbin(input_file, output_file, data_type):
\* the exception it ends with ("none": it returns) and the destination
convert_bin_to_fbin(inp, out, dt, mem) ==
    IF ~inp.exists THEN [err |-> "FileNotFoundError", out |-> out]
    ELSE IF Len(read(inp.bytes, 0, 4)) # 4
    THEN [err |-> "struct.error:unpack", out |-> out]
    ELSE IF Len(read(inp.bytes, 4, 4)) # 4
    THEN [err |-> "struct.error:unpack", out |-> out]
    ELSE LET first_meta == unpack_i(read(inp.bytes, 0, 4))
             second_meta == unpack_i(read(inp.bytes, 4, 4))
         IN  read_data(inp, out, first_meta, second_meta, dt, mem)

----------------------------------------------------------------------------
(* One call of convert_bin_to_fbin on an arbitrary source file *)

Payload(n, seed) == [k \in 1..n |-> (seed + 3 * k) % 256]

SmallWords == { <<n, 0, 0, 0>> : n \in 0..MaxSmallWord }
\* 2^31, 2^32 - 1 and 2^30
WideWords == { <<0, 0, 0, 128>>, <<255, 255, 255, 255>>, <<0, 0, 0, 64>> }
Words == SmallWords \cup WideWords

Payloads == { Payload(n, seed) : n \in 0..MaxPayloadLen, seed \in {7, 100} }

SourceFiles ==
    { File(w1 \o w2 \o p) : w1 \in Words, w2 \in Words, p \in Payloads }
    \cup { File(SubSeq(w1 \o w2, 1, k)) : w1 \in Words, w2 \in Words, k \in 0..7 }
    \cup { Absent }

OldOutput == File(<<111, 108, 100>>)
MemOutcomes == {"short", "MemoryError", "OverflowError"}

MainIdle ==
    /\ pc = "idle" /\ argc = 0 /\ input_dir_exists = FALSE
    /\ src = <<>> /\ dst = <<>> /\ i = 0 /\ exit_code = -1 /\ stdout = <<>>
AnIdle ==
    /\ an_pc = "idle" /\ an_argc = 0
    /\ results_dir_exists = FALSE /\ result_files = <<>>
    /\ j = 0 /\ results = <<>> /\ table = <<>>
    /\ csv_file = [exists |-> FALSE, header |-> "", rows |-> <<>>]
    /\ an_exit = -1

InitConvert ==
    /\ cv_pc = "call"
    /\ input_file \in SourceFiles
    /\ output_file \in {Absent, OldOutput}
    /\ data_type \in {"f", "q"}
    /\ raised = "none"
    /\ MainIdle /\ AnIdle

ConvertCall ==
    /\ cv_pc = "call"
    /\ \E mem \in MemOutcomes :
         LET r == convert_bin_to_fbin(input_file, output_file, data_type, mem)
         IN  /\ output_file' = r.out
             /\ raised' = r.err
             /\ cv_pc' = IF r.err = "none" THEN "returned" ELSE "raised"
    /\ UNCHANGED <<input_file, data_type, main_vars, an_vars>>

NextConvert == ConvertCall
SpecConvert == InitConvert /\ [][NextConvert]_vars

----------------------------------------------------------------------------
(* main() of convert_dataset.py *)

conversions ==
    << [input_name |-> "openai_500k_train_vectors.bin",
        output_name |-> "openai500k_base.fbin", dtype |-> "f"],
       [input_name |-> "openai_500k_test_queries.bin",
        output_name |-> "openai500k_query.fbin", dtype |-> "f"],
       [input_name |-> "openai_500k_ground_truth.bin",
        output_name |-> "openai500k_groundtruth.ibin", dtype |-> "q"] >>

Entries == 1..Len(conversions)

\* a line of output
Line(ev, name, info, size) ==
    [ev |-> ev, name |-> name, info |-> info, size |-> size]

\* num / den rounded to an integer, ties to even
RoundHalfEven(num, den) ==
    LET q == num \div den
        r == num % den
    IN  IF 2 * r < den THEN q
        ELSE IF 2 * r > den THEN q + 1
        ELSE IF q % 2 = 0 THEN q ELSE q + 1

\* f"{size / (1024 * 1024):10.2f}", in hundredths of a MB
size_mb(size) == RoundHalfEven(size * 100, 1024 * 1024)

\* the files main() may find at a manifest source path
BatchSources ==
    { Absent }
    \cup { File(SubSeq(<<1, 0, 0, 0, 1, 0, 0, 0>>, 1, k)) : k \in 0..7 }
    \cup { File(<<1, 0, 0, 0, 1, 0, 0, 0>> \o Payload(4, 7)),
           File(<<1, 0, 0, 0, 1, 0, 0, 0>> \o Payload(8, 7)),
           File(<<2, 0, 0, 0, 1, 0, 0, 0>> \o Payload(4, 7)),
           File(<<255, 255, 255, 255, 0, 0, 0, 0>>),
           File(<<0, 0, 0, 64, 0, 0, 0, 64>> \o Payload(4, 7)) }

Init ==
    /\ pc = "start"
    /\ argc \in 1..3
    /\ input_dir_exists \in BOOLEAN
    /\ src \in [Entries -> BatchSources]
    /\ dst \in [Entries -> {Absent, OldOutput}]
    /\ (argc < 3 => ~input_dir_exists)
    /\ (~input_dir_exists => \A k \in Entries : src[k] = Absent)
    /\ i = 0
    /\ exit_code = -1
    /\ stdout = <<>>
    /\ cv_pc = "idle" /\ input_file = Absent /\ output_file = Absent
    /\ data_type = "f" /\ raised = "none"
    /\ AnIdle

\* len(sys.argv) < 3
Usage ==
    /\ pc = "start" /\ argc < 3
    /\ stdout' = Append(stdout, Line("Usage", "", "", 0))
    /\ pc' = "exit" /\ exit_code' = 1
    /\ UNCHANGED <<argc, input_dir_exists, src, dst, i, cv_vars, an_vars>>

\* not input_dir.exists()
NoInputDir ==
    /\ pc = "start" /\ argc >= 3 /\ ~input_dir_exists
    /\ stdout' = Append(stdout, Line("Error: Input directory not found", "", "", 0))
    /\ pc' = "exit" /\ exit_code' = 1
    /\ UNCHANGED <<argc, input_dir_exists, src, dst, i, cv_vars, an_vars>>

\* output_dir.mkdir, the banner, and the loop is entered
Begin ==
    /\ pc = "start" /\ argc >= 3 /\ input_dir_exists
    /\ stdout' = Append(stdout, Line("OpenAI-500K Dataset Conversion", "", "", 0))
    /\ pc' = "loop" /\ i' = 1
    /\ UNCHANGED <<argc, input_dir_exists, src, dst, exit_code, cv_vars, an_vars>>

\* an absent source ends the run
SkipAborts ==
    /\ pc = "loop" /\ i \in Entries
    /\ ~src[i].exists
    /\ stdout' = Append(stdout, Line("Warning", conversions[i].input_name,
                                     "not found, skipping", 0))
    /\ pc' = "exit" /\ exit_code' = 1
    /\ UNCHANGED <<argc, input_dir_exists, src, dst, i, cv_vars, an_vars>>
\* not input_file.exists(): continue
Skip ==
    /\ pc = "loop" /\ i \in Entries
    /\ ~src[i].exists
    /\ stdout' = Append(stdout, Line("Warning", conversions[i].input_name,
                                     "not found, skipping", 0))
    /\ i' = i + 1
    /\ UNCHANGED <<pc, argc, input_dir_exists, src, dst, exit_code,
                   cv_vars, an_vars>>

\* the try block, the converter returns
ConvertOk ==
    /\ pc = "loop" /\ i \in Entries
    /\ src[i].exists
    /\ \E mem \in MemOutcomes :
         LET r == convert_bin_to_fbin(src[i], dst[i], conversions[i].dtype, mem)
         IN  /\ r.err = "none"
             /\ dst' = [dst EXCEPT ![i] = r.out]
             /\ stdout' = stdout \o
                  << Line("Converting", conversions[i].input_name, "", 0),
                     Line("Conversion successful", conversions[i].input_name, "", 0) >>
    /\ i' = i + 1
    /\ UNCHANGED <<pc, argc, input_dir_exists, src, exit_code, cv_vars, an_vars>>

\* the except branch is not taken to the exit: the loop goes on
ConvertFailContinue ==
    /\ pc = "loop" /\ i \in Entries
    /\ src[i].exists
    /\ \E mem \in MemOutcomes :
         LET r == convert_bin_to_fbin(src[i], dst[i], conversions[i].dtype, mem)
         IN  /\ r.err # "none"
             /\ dst' = [dst EXCEPT ![i] = r.out]
             /\ stdout' = stdout \o
                  << Line("Converting", conversions[i].input_name, "", 0),
                     Line("Error converting", conversions[i].input_name, r.err, 0) >>
    /\ i' = i + 1
    /\ UNCHANGED <<pc, argc, input_dir_exists, src, exit_code, cv_vars, an_vars>>
\* the try block, the converter raises: except Exception, sys.exit(1)
ConvertFail ==
    /\ pc = "loop" /\ i \in Entries
    /\ src[i].exists
    /\ \E mem \in MemOutcomes :
         LET r == convert_bin_to_fbin(src[i], dst[i], conversions[i].dtype, mem)
         IN  /\ r.err # "none"
             /\ dst' = [dst EXCEPT ![i] = r.out]
             /\ stdout' = stdout \o
                  << Line("Converting", conversions[i].input_name, "", 0),
                     Line("Error converting", conversions[i].input_name, r.err, 0) >>
    /\ pc' = "exit" /\ exit_code' = 1
    /\ UNCHANGED <<argc, input_dir_exists, src, i, cv_vars, an_vars>>

RECURSIVE generated_lines(_, _)
generated_lines(d, k) ==
    IF k > Len(conversions) THEN <<>>
    ELSE (IF d[k].exists
          THEN << Line("Generated", conversions[k].output_name, "",
                       size_mb(Len(d[k].bytes))) >>
          ELSE <<>>) \o generated_lines(d, k + 1)

\* the loop is over: the closing banner and the "Generated files:" list
Report ==
    /\ pc = "loop" /\ i = Len(conversions) + 1
    /\ stdout' = stdout
         \o << Line("Conversion completed successfully!", "", "", 0) >>
         \o generated_lines(dst, 1)
    /\ pc' = "exit" /\ exit_code' = 0
    /\ UNCHANGED <<argc, input_dir_exists, src, dst, i, cv_vars, an_vars>>

Next == Usage \/ NoInputDir \/ Begin \/ Skip \/ ConvertOk \/ ConvertFail \/ Report

Spec == Init /\ [][Next]_vars

\* main() runs to its end: one thread, no blocking call
SpecLive == Init /\ [][Next]_vars /\ WF_vars(Next)

----------------------------------------------------------------------------
(* analyze_cagra_results.py *)

\* A JSON object is a function from its keys; dict.get(key, default)
get(obj, key, default) == IF key \in DOMAIN obj THEN obj[key] ELSE default

\* floats are kept in units of 10^-5; f"{x:.2f}" and the like give the
\* value in units of 10^-digits
Pow10(n) == IF n = 0 THEN 1 ELSE IF n = 1 THEN 10 ELSE IF n = 2 THEN 100
            ELSE IF n = 3 THEN 1000 ELSE IF n = 4 THEN 10000 ELSE 100000
format_f(x, digits) == RoundHalfEven(x, Pow10(5 - digits))

None == [none |-> TRUE]

\* parse_benchmark_result on the document json.load returned
parse_benchmark_result(data) ==
    IF "benchmarks" \notin DOMAIN data \/ Len(data.benchmarks) = 0 THEN None
    ELSE LET bench == data.benchmarks[1]
             base == [name |-> get(bench, "name", ""),
                      threads |-> get(bench, "threads", 1)]
         IN  IF "counters" \in DOMAIN bench
             THEN LET counters == bench.counters
                  IN  [name |-> base.name, threads |-> base.threads,
                       recall |-> get(counters, "Recall", 0),
                       qps |-> get(counters, "items_per_second", 0),
                       total_queries |-> get(counters, "total_queries", 0),
                       latency |-> get(counters, "Latency", 0),
                       itopk |-> get(counters, "itopk", 0),
                       search_width |-> get(counters, "search_width", 0),
                       refine_ratio |-> get(counters, "refine_ratio", 0)]
             ELSE base

\* list.sort(key=...) is stable: r goes after the entries whose key is not
\* greater than its own
insert_by_threads(sorted, r) ==
    LET before == SelectSeq(sorted, LAMBDA x : x.threads <= r.threads)
        after == SelectSeq(sorted, LAMBDA x : x.threads > r.threads)
    IN  before \o <<r>> \o after

RECURSIVE sort_prefix(_, _)
sort_prefix(rs, n) ==
    IF n = 0 THEN <<>> ELSE insert_by_threads(sort_prefix(rs, n - 1), rs[n])

\* the list is left in the order of the files
sort_left_out(rs) == rs
\* results.sort(key=lambda x: x['threads'])
sort_by_threads(rs) == sort_prefix(rs, Len(rs))

\* one printed line of the table, and one line of summary.csv
table_row(r) ==
    [concurrency |-> r.threads,
     qps |-> format_f(get(r, "qps", 0), 2),
     recall |-> format_f(get(r, "recall", 0), 4),
     latency |-> format_f(get(r, "latency", 0), 3),
     total_queries |-> get(r, "total_queries", 0)]
csv_row(r) ==
    [concurrency |-> r.threads,
     qps |-> format_f(get(r, "qps", 0), 2),
     recall |-> format_f(get(r, "recall", 0), 4),
     latency |-> format_f(get(r, "latency", 0), 3),
     total_queries |-> get(r, "total_queries", 0)]

\* the result files the summarizer may find
SomeCounters ==
    { [Recall |-> 95123, items_per_second |-> 123456789, Latency |-> 812,
       total_queries |-> 10000, itopk |-> 64, search_width |-> 1,
       refine_ratio |-> 100000],
      [Recall |-> 99995, items_per_second |-> 512500, Latency |-> 4250] }
SomeThreads == {1, 2, 4}
Benches ==
    { [name |-> "cagra", threads |-> t, counters |-> c] :
          t \in SomeThreads, c \in SomeCounters }
    \cup { [name |-> "cagra", threads |-> t] : t \in SomeThreads }
    \cup { [name |-> "cagra", counters |-> c] : c \in SomeCounters }
Docs ==
    { [context |-> "host"], [context |-> "host", benchmarks |-> <<>>] }
    \cup { [context |-> "host", benchmarks |-> <<b>>] : b \in Benches }
    \cup { [context |-> "host",
            benchmarks |-> << [name |-> "cagra", threads |-> 2],
                              [name |-> "cagra", threads |-> 1] >>] }

SeqsUpTo(S, n) == UNION { [1..m -> S] : m \in 0..n }

InitAnalyze ==
    /\ an_pc = "start"
    /\ an_argc \in 1..2
    /\ results_dir_exists \in BOOLEAN
    /\ result_files \in SeqsUpTo(Docs, MaxResultFiles)
    /\ (an_argc < 2 => ~results_dir_exists)
    /\ (~results_dir_exists => result_files = <<>>)
    /\ j = 0
    /\ results = <<>>
    /\ table = <<>>
    /\ csv_file = [exists |-> FALSE, header |-> "", rows |-> <<>>]
    /\ an_exit = -1
    /\ cv_pc = "idle" /\ input_file = Absent /\ output_file = Absent
    /\ data_type = "f" /\ raised = "none"
    /\ MainIdle

AnFail ==
    /\ an_pc' = "exit" /\ an_exit' = 1
    /\ UNCHANGED <<an_argc, results_dir_exists, result_files, j, results,
                   table, csv_file, cv_vars, main_vars>>

\* len(sys.argv) < 2
AnUsage == an_pc = "start" /\ an_argc < 2 /\ AnFail

\* not results_dir.exists()
AnNoDir == an_pc = "start" /\ an_argc >= 2 /\ ~results_dir_exists /\ AnFail

\* not result_files
AnNoFiles ==
    /\ an_pc = "start" /\ an_argc >= 2 /\ results_dir_exists
    /\ Len(result_files) = 0
    /\ AnFail

AnBegin ==
    /\ an_pc = "start" /\ an_argc >= 2 /\ results_dir_exists
    /\ Len(result_files) > 0
    /\ an_pc' = "parse" /\ j' = 1
    /\ UNCHANGED <<an_argc, results_dir_exists, result_files, results, table,
                   csv_file, an_exit, cv_vars, main_vars>>

\* one turn of the loop over result_files
AnParse ==
    /\ an_pc = "parse" /\ j <= Len(result_files)
    /\ LET result == parse_benchmark_result(result_files[j])
       IN  results' = IF result # None THEN Append(results, result) ELSE results
    /\ j' = j + 1
    /\ UNCHANGED <<an_pc, an_argc, results_dir_exists, result_files, table,
                   csv_file, an_exit, cv_vars, main_vars>>

\* not results
AnNoValid ==
    /\ an_pc = "parse" /\ j > Len(result_files)
    /\ Len(results) = 0
    /\ AnFail

\* the sort and the table
AnSortPrint ==
    /\ an_pc = "parse" /\ j > Len(result_files)
    /\ Len(results) > 0
    /\ results' = sort_by_threads(results)
    /\ table' = [k \in 1..Len(results) |-> table_row(sort_by_threads(results)[k])]
    /\ an_pc' = "csv"
    /\ UNCHANGED <<an_argc, results_dir_exists, result_files, j, csv_file,
                   an_exit, cv_vars, main_vars>>

\* summary.csv is written and main() returns
AnWriteCsv ==
    /\ an_pc = "csv"
    /\ csv_file' = [exists |-> TRUE,
                    header |-> "Concurrency,QPS,Recall,Latency_ms,Total_Queries",
                    rows |-> [k \in 1..Len(results) |-> csv_row(results[k])]]
    /\ an_pc' = "exit" /\ an_exit' = 0
    /\ UNCHANGED <<an_argc, results_dir_exists, result_files, j, results,
                   table, cv_vars, main_vars>>

NextAnalyze ==
    AnUsage \/ AnNoDir \/ AnNoFiles \/ AnBegin \/ AnParse \/ AnNoValid
        \/ AnSortPrint \/ AnWriteCsv

SpecAnalyze == InitAnalyze /\ [][NextAnalyze]_vars

----------------------------------------------------------------------------
(* The source file as its format describes it: two unsigned 32-bit words   *)
(* and the payload.  A word above 255 times a non-zero word declares more  *)
(* than 1000 bytes, which no file considered here has.                     *)

HasHeader(f) == f.exists /\ Len(f.bytes) >= 8
DimWord(f) == SubSeq(f.bytes, 1, 4)
CountWord(f) == SubSeq(f.bytes, 5, 8)
PayloadOf(f) == SubSeq(f.bytes, 9, Len(f.bytes))
IsZeroWord(w) == w = <<0, 0, 0, 0>>
IsByteWord(w) == w[2] = 0 /\ w[3] = 0 /\ w[4] = 0
Width(dt) == IF dt = "f" THEN 4 ELSE 8
DeclaredSize(f, dt) ==
    IF IsZeroWord(DimWord(f)) \/ IsZeroWord(CountWord(f)) THEN 0
    ELSE IF IsByteWord(DimWord(f)) /\ IsByteWord(CountWord(f))
    THEN DimWord(f)[1] * CountWord(f)[1] * Width(dt)
    ELSE -1
WellFormed(f, dt) == HasHeader(f) /\ Len(PayloadOf(f)) = DeclaredSize(f, dt)

LastLine == stdout[Len(stdout)]
HasLine(ev, name) ==
    \E k \in 1..Len(stdout) : stdout[k].ev = ev /\ stdout[k].name = name

----------------------------------------------------------------------------
(* Claims about one call of convert_bin_to_fbin (SpecConvert) *)

\* C1: for every header [dimension, count] of unsigned 32-bit words, top bit
\* set included, and a payload of exactly dimension*count*element_width
\* bytes, the call succeeds and the destination starts with the word count
\* followed by the word dimension, unchanged.
C1_HeaderTransposedForAllWords ==
    (cv_pc # "call" /\ WellFormed(input_file, data_type)) =>
        /\ cv_pc = "returned"
        /\ Len(output_file.bytes) >= 8
        /\ SubSeq(output_file.bytes, 1, 4) = CountWord(input_file)
        /\ SubSeq(output_file.bytes, 5, 8) = DimWord(input_file)

\* C2: for width 4 and width 8, when the call succeeds on a source whose
\* payload P has the declared length, the destination is 8 + Len(P) bytes
\* long and its bytes from offset 8 on are P.
C2_PayloadPreserved ==
    (cv_pc = "returned" /\ WellFormed(input_file, data_type)) =>
        /\ output_file.exists
        /\ Len(output_file.bytes) = 8 + Len(PayloadOf(input_file))
        /\ SubSeq(output_file.bytes, 9, Len(output_file.bytes))
             = PayloadOf(input_file)

C2_Witness ==
    /\ cv_pc = "returned" /\ data_type = "q"
    /\ WellFormed(input_file, data_type)
    /\ Len(PayloadOf(input_file)) = 16

\* C3: a source whose payload is shorter or longer than
\* dimension*count*element_width always fails, never succeeds by dropping
\* or padding bytes; the error is the size-mismatch error (stated for the
\* headers whose declared size a read can ask for: words below 256).
C3_MismatchAlwaysFails ==
    (cv_pc # "call" /\ HasHeader(input_file)
       /\ ~WellFormed(input_file, data_type)) =>
        /\ cv_pc = "raised"
        /\ (IsByteWord(DimWord(input_file)) /\ IsByteWord(CountWord(input_file)))
              => raised = "ValueError:mismatch"

\* C4: a call that fails with the size-mismatch error leaves the destination
\* path as it was before the call.
C4_MismatchLeavesDestination ==
    [][(cv_pc = "call" /\ raised' = "ValueError:mismatch")
          => output_file' = output_file]_vars

C4_Witness ==
    /\ cv_pc = "raised" /\ raised = "ValueError:mismatch"
    /\ output_file = OldOutput
    /\ Len(PayloadOf(input_file)) = 12
    /\ DeclaredSize(input_file, data_type) = 16

\* C10: for every source content, a call that ends in an error leaves the
\* destination as it was, and a call that returns leaves a destination of
\* 8 + dimension*count*element_width bytes.
C10_DestinationAllOrNothing ==
    [][cv_pc = "call" =>
          IF raised' # "none"
          THEN output_file' = output_file
          ELSE /\ output_file'.exists
               /\ Len(output_file'.bytes)
                    = 8 + DeclaredSize(input_file, data_type)]_vars

----------------------------------------------------------------------------
(* Claims about main() of convert_dataset.py (Spec, SpecLive) *)

\* C5: a source of 0 to 7 bytes makes the converter fail while it decodes
\* the header, no destination is written, and the batch ends with status 1.
C5_ShortHeaderStep ==
    (pc = "loop" /\ i \in Entries /\ src[i].exists /\ Len(src[i].bytes) < 8) =>
        /\ pc' = "exit" /\ exit_code' = 1
        /\ dst' = dst
        /\ stdout'[Len(stdout')] =
             Line("Error converting", conversions[i].input_name,
                  "struct.error:unpack", 0)
C5_ShortHeaderFails == [][C5_ShortHeaderStep]_vars

C5_Witness ==
    /\ pc = "exit" /\ exit_code = 1 /\ i = 2
    /\ Len(src[2].bytes) = 0 /\ src[2].exists
    /\ dst[2] = Absent
    /\ LastLine.info = "struct.error:unpack"

\* the entries main() got to, in the order of the output
Attempted == SelectSeq(stdout, LAMBDA l : l.ev \in {"Warning", "Converting"})
HasErrorLine == \E k \in 1..Len(stdout) : stdout[k].ev = "Error converting"

\* C6: an absent source never aborts the batch: it is skipped without a
\* call of the converter, the later entries are attempted in manifest
\* order, and a run in which no conversion fails ends with status 0.
C6_State ==
    /\ (pc \in {"loop", "exit"} /\ i >= 1) =>
          /\ Len(Attempted) = (IF pc = "exit" /\ exit_code = 1 THEN i ELSE i - 1)
          /\ \A k \in 1..Len(Attempted) :
                /\ Attempted[k].name = conversions[k].input_name
                /\ (Attempted[k].ev = "Warning") <=> ~src[k].exists
    /\ (pc = "exit" /\ exit_code = 1 /\ i >= 1) =>
          LastLine.ev = "Error converting"
    /\ (pc = "exit" /\ i >= 1 /\ ~HasErrorLine) =>
          /\ exit_code = 0
          /\ Len(Attempted) = Len(conversions)
C6_AbsentNeverAborts == []C6_State /\ <>(pc = "exit")

C6_Witness ==
    /\ pc = "exit" /\ exit_code = 0
    /\ ~src[1].exists /\ src[2].exists /\ ~src[3].exists
    /\ HasLine("Warning", conversions[1].input_name)
    /\ HasLine("Conversion successful", conversions[2].input_name)
    /\ HasLine("Warning", conversions[3].input_name)

\* C7: when a conversion raises, the driver ends at once with status 1: no
\* later entry is converted or has its destination touched, and the
\* destinations written for earlier entries stay as they are.
C7_Step ==
    /\ pc # "exit"
    /\ (Len(stdout') > 0 /\ stdout'[Len(stdout')].ev = "Error converting") =>
          /\ pc' = "exit" /\ exit_code' = 1
          /\ \A k \in Entries \ {i} : dst'[k] = dst[k]
C7_ErrorAbortsAtOnce == [][C7_Step]_vars

C7_Witness ==
    /\ pc = "exit" /\ exit_code = 1 /\ i = 2
    /\ HasLine("Conversion successful", conversions[1].input_name)
    /\ dst[1].exists /\ Len(dst[1].bytes) = 12
    /\ LastLine.ev = "Error converting"
    /\ dst[3] = OldOutput

\* C8: when the driver completes, the report lists an entry's output size
\* if and only if the entry was converted in this run.
C8_ReportListsOnlyConverted ==
    (pc = "exit" /\ exit_code = 0) =>
        \A k \in Entries :
            HasLine("Generated", conversions[k].output_name)
              <=> HasLine("Conversion successful", conversions[k].input_name)

----------------------------------------------------------------------------
(* Claim about the summarizer (SpecAnalyze) *)

HasBenchmarks(d) == "benchmarks" \in DOMAIN d /\ Len(d.benchmarks) > 0
\* the 'threads' value of each result file with a non-empty list, in the
\* order of the files
ThreadsOfFiles ==
    LET valid == SelectSeq(result_files, HasBenchmarks)
    IN  [k \in 1..Len(valid) |-> get(valid[k].benchmarks[1], "threads", 1)]
RowOfFile(d) == table_row(parse_benchmark_result(d))
Count(seq, x) == Cardinality({ k \in 1..Len(seq) : seq[k] = x })
Ascending(rows) ==
    \A a, b \in 1..Len(rows) : a < b => rows[a].concurrency <= rows[b].concurrency

\* C9: the table and summary.csv have exactly one row per result file with a
\* non-empty 'benchmarks' list, in ascending order of 'threads', and list
\* the same records in the same order; a run that finds no such file
\* prints no row and writes no summary.csv.
C9_OneRowPerValidFileSorted ==
    LET valid == SelectSeq(result_files, HasBenchmarks)
        expected == [k \in 1..Len(valid) |-> RowOfFile(valid[k])]
    IN  /\ an_pc \in {"csv", "exit"} /\ an_exit # 1 =>
              /\ Len(table) = Len(valid)
              /\ \A k \in 1..Len(expected) :
                    Count(table, expected[k]) = Count(expected, expected[k])
              /\ Ascending(table)
        /\ (an_pc = "exit" /\ an_exit = 0) =>
              /\ csv_file.exists
              /\ csv_file.rows = table
        /\ (an_pc = "exit" /\ an_exit = 1) =>
              /\ Len(valid) = 0
              /\ table = <<>>
              /\ ~csv_file.exists

C9_Witness ==
    /\ an_pc = "exit" /\ an_exit = 0
    /\ Len(result_files) = 3
    /\ ~HasBenchmarks(result_files[2])
    /\ ThreadsOfFiles = <<4, 1>>
    /\ Len(csv_file.rows) = 2
    /\ csv_file.rows[1].concurrency = 1

====
